---- MODULE Spec2Model ----
\* A model of pytopomat's interface to irvsp (src/pytopomat/irvsp_caller.py):
\* the report parsers IRVSPOutput and IRVSPOutputAll, the subprocess wrapper
\* IRVSPCaller.__init__ and the OUTCAR rewriter IRVSPCaller.modify_outcar.
\*
\* One variable, call, says which entry point a behaviour exercises. Text files
\* are sequences of lines; a line is a record [kind, arg, n] whose n is its
\* 1-based position in the file, so that a value parsed from a line can be traced
\* back to it. The substring tests of the code ("k = ", "bnd ndg", "0", "*****",
\* ...) are operators over the line's kind and shape.
EXTENDS Integers, Sequences, FiniteSets, TLC

\* ------------------------------------------------------------------ bounds
\* Lines of report body (after the first "*****" line) a behaviour reads.
MaxLines == 12
\* Lines between a "bnd ndg" header and the closing "*****" line.
MaxTraces == 3

\* ----------------------------------------------------------- python values
\* A local name that no assignment has bound yet; reading it raises.
Unbound == "<unbound>"
\* Python's None (as a value and as a KPOINTS label).
None == "<None>"
NoExc == "<no exception>"

\* A dict is the sequence of its items [k, v] in insertion order, keys unique.
DictHas(d, k) == \E i \in 1..Len(d) : d[i].k = k
DictGet(d, k) == d[CHOOSE i \in 1..Len(d) : d[i].k = k].v
DictSet(d, k, v) ==
  IF DictHas(d, k)
  THEN [i \in 1..Len(d) |-> IF d[i].k = k THEN [k |-> k, v |-> v] ELSE d[i]]
  ELSE Append(d, [k |-> k, v |-> v])

\* ------------------------------------------------------- k-points and text
\* Coordinates are integers in units of 1e-6, as irvsp prints six decimals.
\* round(x, 3): the nearest multiple of 1e-3, in units of 1e-3.
Round3(x) == IF x >= 0 THEN (x + 500) \div 1000 ELSE -((500 - x) \div 1000)
RoundVec(v) == <<Round3(v[1]), Round3(v[2]), Round3(v[3])>>

kGamma == <<0, 0, 0>>
kK == <<333333, 333333, 0>>
kU == <<250000, 0, 0>>
Unparsable == <<"?">>
KVecs == {kGamma, kK, kU}

\* str() of a tuple of rounded floats, on the vectors of the model.
Str(kvec) ==
  CASE kvec = <<0, 0, 0>> -> "(0.0, 0.0, 0.0)"
    [] kvec = <<333, 333, 0>> -> "(0.333, 0.333, 0.0)"
    [] kvec = <<250, 0, 0>> -> "(0.25, 0.0, 0.0)"
    [] OTHER -> "(?)"

\* The KPOINTS file: labels and kpts, zipped. kU carries no label.
KPOINTS ==
  << [label |-> "GAMMA", kpt |-> <<0, 0, 0>>],
     [label |-> None, kpt |-> <<250000, 0, 0>>],
     [label |-> "K", kpt |-> <<333333, 333333, 0>>] >>
\* The same file with the unlabelled point labelled "" or " ", and a file
\* whose only point is labelled "None".
Relabelled(l) ==
  [i \in 1..Len(KPOINTS) |->
     IF KPOINTS[i].label = None THEN [label |-> l, kpt |-> KPOINTS[i].kpt]
     ELSE KPOINTS[i]]
OnlyNoneString == << [label |-> "None", kpt |-> <<250000, 0, 0>>] >>
KpointsFiles == {KPOINTS, OnlyNoneString, Relabelled(""), Relabelled(" ")}

\* Point group irvsp prints for a k-vector (a stand-in for its own analysis).
PointGroupOf(v) ==
  CASE v = kGamma -> "D6h" [] v = kK -> "D3h" [] OTHER -> "C2v"

TraceShapes ==
  {"full", "nozero", "blank", "badhead", "short", "unknown", "badfield"}

Line(kind, arg, n) == [kind |-> kind, arg |-> arg, n |-> n]

\* The substring tests of the scanning loop.
StartsWithK(line) == line.kind = "k"
HasPointGroup(line) == line.kind = "pg"
HasERow(line) == line.kind = "ctE"
HasGRow(line) == line.kind = "ct"
HasBndNdg(line) == line.kind = "hdr"
HasStars(line) == line.kind = "stars"
\* "0" in line: a k-vector line prints digits; a trace line unless its shape
\* says otherwise.
HasZero(line) ==
  \/ line.kind = "k" /\ line.arg # Unparsable
  \/ line.kind = "trace" /\ line.arg \notin {"nozero", "blank"}
\* int(line.split()[0]) succeeds.
HeadIsInt(line) == line.kind = "trace" /\ line.arg \notin {"blank", "badhead"}
\* len(line[6:].strip().split("=", 1)[0]) > 30
LongTrace(line) == line.kind = "trace" /\ line.arg \notin {"blank", "short", "badhead"}
\* len(line.split("=")) == 2: exactly one "=".
OneEquals(line) == line.kind = "trace" /\ line.arg \notin {"blank", "unknown", "badhead"}
\* int(line[:3]), int(line[3:6]) and float(line[6:16]) all succeed.
FieldsParse(line) == line.kind = "trace" /\ line.arg \in {"full", "nozero", "short", "unknown"}
\* The values the fixed-width fields of line n hold.
BandIndex(line) == line.n
BandDegeneracy(line) == 1 + (line.n % 2)
BandEigenval(line) == <<"ev", line.n>>
IrrepLabel(line) == <<"irs", line.n>>

\* ------------------------------------------------------------- trim_dict
\* dict(zip(kpoints.labels, kpoints.kpts))
ZipDict(kpoints, i) ==
  LET RECURSIVE Z(_)
      Z(j) == IF j = 0 THEN <<>>
              ELSE DictSet(Z(j - 1), kpoints[j].label, kpoints[j].kpt)
  IN Z(i)
DictPop(d, k) == SelectSeq(d, LAMBDA it : it.k # k)
\* {pt: label for (pt, label) in zip(rounded values, keys)}
InvertDict(d) ==
  LET RECURSIVE V(_)
      V(j) == IF j = 0 THEN <<>>
              ELSE DictSet(V(j - 1), RoundVec(d[j].v), d[j].k)
  IN V(Len(d))
\* The label map of IRVSPOutput: [exc, d]. pop(None) of a dict without the
\* key None raises KeyError.
TrimDict(kpoints) ==
  LET d0 == ZipDict(kpoints, Len(kpoints))
      d1 == IF DictHas(d0, "None") THEN DictPop(d0, "None") ELSE d0
      d2 == IF DictHas(d1, None) THEN DictPop(d1, None) ELSE d1
  IN IF DictHas(d2, "") \/ DictHas(d2, " ")
     THEN [exc |-> "KeyError", d |-> <<>>]
     ELSE [exc |-> NoExc, d |-> InvertDict(d2)]

\* --------------------------------------------------- the scanning loop
\* The locals of _parse_stdout when the scanning loop starts. bound holds the
\* names an assignment has bound: "traces" for bnds, ndgs, bnd_evs and reps,
\* "pg" for point_gp_at_k and pg_character_table, "trim_label".
ScanStart ==
  [ kpt_wanted |-> FALSE, trace_start |-> FALSE, trim_label |-> Unbound,
    point_gp_at_k |-> Unbound, pg_character_table |-> <<>>,
    bnds |-> <<>>, ndgs |-> <<>>, bnd_evs |-> <<>>, reps |-> <<>>,
    bound |-> {}, parity_eigenvals |-> <<>>, exc |-> NoExc ]

Step(st, skip) == [st |-> st, skip |-> skip]

\* IRVSPOutput: a "k = " line. skip is the loop's continue.
NewKvec(trim_dict, st, line) ==
  IF ~StartsWithK(line) THEN Step(st, FALSE)
  ELSE IF line.arg = Unparsable THEN Step(st, TRUE)
  ELSE LET kvec == RoundVec(line.arg) IN
       IF ~DictHas(trim_dict, kvec) THEN Step(st, TRUE)
       ELSE Step([st EXCEPT !.trim_label = DictGet(trim_dict, kvec),
                            !.bound = @ \cup {"trim_label"},
                            !.kpt_wanted = TRUE], FALSE)

\* IRVSPOutputAll: a "k = " line; every parsable vector is wanted.
NewKvecAll(st, line) ==
  IF ~StartsWithK(line) THEN Step(st, FALSE)
  ELSE IF line.arg = Unparsable THEN Step(st, TRUE)
  ELSE Step([st EXCEPT !.trim_label = Str(RoundVec(line.arg)),
                       !.bound = @ \cup {"trim_label"},
                       !.kpt_wanted = TRUE], FALSE)

\* "The point group is" and the rows of the character table.
PointGroupLines(st, line) ==
  LET s1 == IF HasPointGroup(line) /\ st.kpt_wanted
            THEN [st EXCEPT !.point_gp_at_k = line.arg,
                            !.pg_character_table = <<>>,
                            !.bound = @ \cup {"pg"}]
            ELSE st
  IN IF (HasERow(line) \/ HasGRow(line)) /\ s1.kpt_wanted
     THEN IF "pg" \notin s1.bound
          THEN [s1 EXCEPT !.exc = "UnboundLocalError"]
          ELSE [s1 EXCEPT !.pg_character_table = Append(@, line.n)]
     ELSE s1

\* The "bnd ndg" header opens a block of traces with fresh arrays.
\* symmops.index("E") raises when the header names no operation E.
TraceHeader(st, line) ==
  IF HasBndNdg(line) /\ st.kpt_wanted
  THEN LET s1 == [st EXCEPT !.trace_start = TRUE, !.bnds = <<>>,
                             !.ndgs = <<>>, !.bnd_evs = <<>>, !.reps = <<>>,
                             !.bound = @ \cup {"traces"}]
       IN IF line.arg # "E" THEN [s1 EXCEPT !.exc = "ValueError"] ELSE s1
  ELSE st

\* TraceLine with the band index appended as soon as it is read, before the
\* line is known to be complete.
TraceLineEager(st, line) ==
  IF ~(st.kpt_wanted /\ st.trace_start /\ HasZero(line)) THEN Step(st, FALSE)
  ELSE IF ~HeadIsInt(line) THEN Step(st, TRUE)
  ELSE LET s1 == [st EXCEPT !.bnds = Append(@, BandIndex(line))] IN
       IF ~(LongTrace(line) /\ OneEquals(line)) THEN Step(s1, FALSE)
       ELSE IF ~FieldsParse(line) THEN Step([s1 EXCEPT !.exc = "ValueError"], FALSE)
       ELSE Step([s1 EXCEPT !.ndgs = Append(@, BandDegeneracy(line)),
                            !.bnd_evs = Append(@, BandEigenval(line)),
                            !.reps = Append(@, IrrepLabel(line))], FALSE)

\* A line of the trace block: recorded when complete, skipped otherwise.
TraceLine(st, line) ==
  IF ~(st.kpt_wanted /\ st.trace_start /\ HasZero(line)) THEN Step(st, FALSE)
  ELSE IF ~HeadIsInt(line) THEN Step(st, TRUE)
  ELSE IF ~(LongTrace(line) /\ OneEquals(line)) THEN Step(st, FALSE)
  ELSE IF ~FieldsParse(line) THEN Step([st EXCEPT !.exc = "ValueError"], FALSE)
  ELSE Step([st EXCEPT !.bnds = Append(@, BandIndex(line)),
                       !.ndgs = Append(@, BandDegeneracy(line)),
                       !.bnd_evs = Append(@, BandEigenval(line)),
                       !.reps = Append(@, IrrepLabel(line))], FALSE)

\* kvec_data of the block that a "*****" line closes.
KvecData(st) ==
  [ band_index |-> st.bnds, band_degeneracy |-> st.ndgs,
    band_eigenval |-> st.bnd_evs, irreducible_reps |-> st.reps,
    point_group |-> st.point_gp_at_k,
    pg_character_table |-> st.pg_character_table ]

\* Where kvec_data goes: under the label, or under its "up"/"down".
StoreKvecData(spin_polarized, pe, trim_label, kvec_data) ==
  IF spin_polarized
  THEN IF DictHas(pe, trim_label)
       THEN DictSet(pe, trim_label,
                    [x \in DOMAIN DictGet(pe, trim_label) \cup {"down"} |->
                       IF x = "down" THEN kvec_data
                       ELSE DictGet(pe, trim_label)[x]])
       ELSE DictSet(pe, trim_label, [up |-> kvec_data])
  ELSE DictSet(pe, trim_label, kvec_data)

\* A "*****" line ends the block and stores its record.
EndBlock(spin_polarized, st, line) ==
  IF ~HasStars(line) THEN st
  ELSE IF {"traces", "pg", "trim_label"} \ st.bound # {}
       THEN [st EXCEPT !.trace_start = FALSE, !.exc = "UnboundLocalError"]
       ELSE [st EXCEPT !.trace_start = FALSE,
                       !.parity_eigenvals =
                          StoreKvecData(spin_polarized, @, st.trim_label,
                                        KvecData(st))]

\* The rest of one iteration, after the "k = " test did not continue.
AfterKvec(spin_polarized, st, line) ==
  LET s1 == PointGroupLines(st, line) IN
  IF s1.exc # NoExc THEN s1 ELSE
  LET s2 == TraceHeader(s1, line) IN
  IF s2.exc # NoExc THEN s2 ELSE
  LET s3 == TraceLine(s2, line) IN
  IF s3.st.exc # NoExc \/ s3.skip THEN s3.st
  ELSE EndBlock(spin_polarized, s3.st, line)

\* One iteration of the scanning loop of IRVSPOutput._parse_stdout.
ScanLine(trim_dict, spin_polarized, st, line) ==
  LET s0 == NewKvec(trim_dict, st, line) IN
  IF s0.skip THEN s0.st ELSE AfterKvec(spin_polarized, s0.st, line)

\* One iteration of the scanning loop of IRVSPOutputAll._parse_stdout.
ScanLineAll(spin_polarized, st, line) ==
  LET s0 == NewKvecAll(st, line) IN
  IF s0.skip THEN s0.st ELSE AfterKvec(spin_polarized, s0.st, line)

\* The scanning loop over a whole text; it stops at the first exception.
ScanText(c, td, spin_polarized, text) ==
  LET RECURSIVE F(_)
      F(j) == IF j = 0 THEN ScanStart
              ELSE LET prev == F(j - 1) IN
                   IF prev.exc # NoExc THEN prev
                   ELSE IF c = "IRVSPOutput"
                        THEN ScanLine(td, spin_polarized, prev, text[j])
                        ELSE ScanLineAll(spin_polarized, prev, text[j])
  IN F(Len(text))

\* Header info: lines[7], lines[9] and lines[10] of the report. The first
\* definition reads soc from lines[10], the spin-polarization line.
HeaderFlagsSocFromSpLine(h) ==
  [ symmorphic |-> ~h.nonsymm, inversion |-> ~h.without,
    soc |-> ~h.sp_no, spin_polarized |-> ~h.sp_no ]
HeaderFlags(h) ==
  [ symmorphic |-> ~h.nonsymm, inversion |-> ~h.without,
    soc |-> ~h.soc_no, spin_polarized |-> ~h.sp_no ]

\* IRVSPOutput(file, kpoints) / IRVSPOutputAll(file) as one call:
\* [exc, by, parity_eigenvals].
Construct(c, file, kpoints) ==
  IF file.head.short THEN [exc |-> "IndexError", by |-> c, parity_eigenvals |-> <<>>]
  ELSE LET t == IF c = "IRVSPOutput" THEN TrimDict(kpoints)
                ELSE [exc |-> NoExc, d |-> <<>>]
       IN IF t.exc # NoExc
          THEN [exc |-> t.exc, by |-> c, parity_eigenvals |-> <<>>]
          ELSE LET r == ScanText(c, t.d, HeaderFlags(file.head).spin_polarized,
                                 file.body)
               IN [exc |-> r.exc, by |-> c, parity_eigenvals |-> r.parity_eigenvals]

\* ------------------------------------------------------------------ state
VARIABLES
  call,      \* the entry point this behaviour exercises
  pc,        \* where that call stands
  header,    \* the head of the report, through its first "*****" line:
             \* what lines 8, 10 and 11 say
  lines,     \* the report lines after that (lines[block_start:]), read so far
  kpoints,   \* IRVSPOutput: the Kpoints object the constructor was called with
  args,      \* the keyword arguments the constructor was called with
  self,      \* the attributes of the IRVSPOutput / IRVSPOutputAll object
  trim_dict, \* IRVSPOutput's map from rounded k-vector to label
  scan,      \* the locals of the scanning loop
  exc,       \* the exception the call raised, or NoExc
  env,       \* IRVSPCaller: what the caller finds (executable, files, arguments)
  cwd,       \* IRVSPCaller: the working directory
  fs,        \* IRVSPCaller: outir.txt and err.txt
  proc,      \* IRVSPCaller: the irvsp subprocess
  started,   \* IRVSPCaller: how many times irvsp was started
  cmd_list,  \* IRVSPCaller: the command line
  output,    \* IRVSPCaller: self.output
  events,    \* IRVSPCaller: what the constructor has done, in order
  outcar,    \* modify_outcar: the lines of OUTCAR read so far
  loop,      \* modify_outcar: irot_start, num_ops and sgo_lines
  temp,      \* modify_outcar: what has been written to temp.txt
  disk       \* modify_outcar: the files OUTCAR, `name` and temp.txt

parseVars == <<header, lines, kpoints, args, self, trim_dict, scan>>
callerVars == <<env, cwd, fs, proc, started, cmd_list, output, events>>
outcarVars == <<outcar, loop, temp, disk>>
vars == <<call, pc, exc, parseVars, callerVars, outcarVars>>

\* A report of fewer than eleven lines.
ShortFile == [short |-> TRUE, nonsymm |-> FALSE, without |-> FALSE,
              soc_no |-> FALSE, sp_no |-> FALSE]
Headers ==
  { ShortFile,
    [short |-> FALSE, nonsymm |-> TRUE, without |-> FALSE,
     soc_no |-> FALSE, sp_no |-> TRUE],
    [short |-> FALSE, nonsymm |-> FALSE, without |-> TRUE,
     soc_no |-> TRUE, sp_no |-> FALSE] }

\* The attributes __init__ sets from its arguments (all default to None).
SelfStart ==
  [ symmorphic |-> None, inversion |-> None, soc |-> None,
    spin_polarized |-> None, parity_eigenvals |-> None ]

\* The keyword arguments of the constructors: the defaults, or values a
\* caller passes (given); the passed dict has one record under "PASSED".
DefaultArgs == [given |-> FALSE, attrs |-> SelfStart]
PassedArgs ==
  [ given |-> TRUE,
    attrs |-> [ symmorphic |-> TRUE, inversion |-> FALSE, soc |-> TRUE,
                spin_polarized |-> FALSE,
                parity_eigenvals |-> <<[k |-> "PASSED", v |-> KvecData(ScanStart)]>> ] ]
\* self.symmorphic = symmorphic ... self.parity_eigenvals = parity_eigenvals
InitAttrs(a) == a.attrs

\* self.symmorphic = symmorphic ... self.spin_polarized = spin_polarized, with
\* the values read from the header.
ParsedAttrs(s, h) ==
  [x \in DOMAIN s |->
     IF x \in DOMAIN HeaderFlags(h) THEN HeaderFlags(h)[x] ELSE s[x]]

\* The lines irvsp may print next: blocks of a "k = " line, the point group,
\* a character-table row, the "bnd ndg" header, trace lines and "*****".
TracesSinceHeader(text) ==
  LET RECURSIVE C(_)
      C(j) == IF j = 0 \/ text[j].kind # "trace" THEN 0 ELSE 1 + C(j - 1)
  IN C(Len(text))
NextLines(text) ==
  LET n == Len(text) + 1
      last == IF text = <<>> THEN "stars" ELSE text[Len(text)].kind
  IN CASE last = "stars" -> {Line("k", v, n) : v \in KVecs \cup {Unparsable}}
       [] last = "k" -> {Line("pg", PointGroupOf(text[Len(text)].arg), n)}
       [] last = "pg" -> {Line("ct", "G", n)}
       [] last = "ct" -> {Line("hdr", "E", n)}
       [] OTHER -> {Line("stars", "*", n)} \cup
                   (IF TracesSinceHeader(text) < MaxTraces
                    THEN {Line("trace", sh, n) : sh \in TraceShapes}
                    ELSE {})


\* ---------------------------------------------------------- modify_outcar
\* Lines of OUTCAR a behaviour reads.
MaxOutcar == 6
\* Operation counts an INISYM line may state.
OpCounts == {1, 2}
\* The lines written in place of the operations.
identity_op == Line("identity_op", 0, 0)
inv_op == Line("inv_op", 0, 0)
newline == Line("newline", 0, 0)
\* An OUTCAR line: the INISYM line with its count, the "irot" header, an
\* operation, or any other line (arg is 0 where the line states no count).
OutcarLines(n) ==
  {Line("inisym", c, n) : c \in OpCounts} \cup
  {Line("irot", 0, n), Line("op", 0, n), Line("other", 0, n)}

Absent == [exists |-> FALSE, content |-> <<>>]
LoopStart == [irot_start |-> -1, num_ops |-> -1, sgo_lines |-> {}]

\* One iteration of the loop over enumerate(lines): idx counts from 0.
RewriteLine(l, out, idx, line) ==
  LET n1 == IF line.kind = "inisym" THEN line.arg ELSE l.num_ops
      l1 == IF line.kind = "irot"
            THEN [irot_start |-> idx, num_ops |-> n1,
                  sgo_lines |-> (idx + 1)..(idx + n1)]
            ELSE [l EXCEPT !.num_ops = n1]
      o1 == IF idx = l1.irot_start + l1.num_ops
            THEN out \o <<identity_op, inv_op, newline>>
            ELSE out
      o2 == IF idx \notin l1.sgo_lines THEN Append(o1, line) ELSE o1
  IN [loop |-> l1, temp |-> o2]

OutcarIdle ==
  /\ outcar = <<>>
  /\ loop = LoopStart
  /\ temp = <<>>
  /\ disk = [x \in {"OUTCAR", "name", "temp.txt"} |-> Absent]


\* ----------------------------------------------------------- IRVSPCaller
Required == {"POSCAR", "OUTCAR", "WAVECAR"}
NoFile == [exists |-> FALSE, old |-> FALSE, head |-> ShortFile, body |-> <<>>]
\* A file just opened with mode "w": created or truncated, and empty.
EmptyFile == [exists |-> TRUE, old |-> FALSE, head |-> ShortFile, body |-> <<>>]
PlainHeader == [short |-> FALSE, nonsymm |-> FALSE, without |-> FALSE,
                soc_no |-> TRUE, sp_no |-> TRUE]
\* One k-point block holding one trace line.
Block(kvec, shape) ==
  << Line("k", kvec, 1), Line("pg", PointGroupOf(kvec), 2), Line("ct", "G", 3),
     Line("hdr", "E", 4), Line("trace", shape, 5), Line("stars", "*", 6) >>
\* What an earlier run left behind.
OldFile == [exists |-> TRUE, old |-> TRUE, head |-> PlainHeader,
            body |-> Block(kGamma, "full")]
\* The reports irvsp may print in a run of the caller (or a prefix of one).
CallerReports ==
  {Block(kGamma, "full"), Block(kU, "full"), Block(kGamma, "badfield")}
NoProc == [state |-> "none", stdout |-> "", stderr |-> "", report |-> <<>>]

\* The symmorphic space groups, symmorphic_spacegroups.json["ssgs"].
ssgs ==
  {1, 2, 3, 5, 6, 8, 10, 12, 16, 21, 22, 23, 25, 35, 38, 42, 44, 47, 65, 69, 71,
   75, 79, 81, 82, 83, 87, 89, 97, 99, 107, 111, 115, 119, 121, 123, 139, 143,
   146, 147, 148, 149, 150, 155, 156, 157, 160, 162, 164, 166, 168, 174, 175,
   177, 183, 187, 189, 191, 195, 196, 197, 200, 202, 204, 207, 209, 211, 215,
   216, 217, 221, 225, 229}
\* Space groups the analyzer may report, and values of set_spn (0: not given).
AnalyzedGroups == {14, 221}
SetSpnValues == {0, 62}

\* sgn = set_spn if set_spn else sga.get_space_group_number()
SpaceGroupNumber(set_spn, sga) == IF set_spn # 0 THEN set_spn ELSE sga
\* v = 1; the branch that forced another value for sgn not in ssgs is
\* commented out.
VersionFlag(sgn) == 1
\* cmd_list = ["irvsp", "-sg", str(sgn), "-v", str(v)]
CmdList(sgn) == <<"irvsp", "-sg", sgn, "-v", VersionFlag(sgn)>>

\* The check without its POSCAR clause.
FilesMissingNoPoscar(present) ==
  "OUTCAR" \notin present \/ "WAVECAR" \notin present
\* not isfile(OUTCAR) or not isfile(WAVECAR) or not isfile(POSCAR)
FilesMissing(present) ==
  "OUTCAR" \notin present \/ "WAVECAR" \notin present \/ "POSCAR" \notin present
\* A wait that returns while the subprocess may still run.
CommunicateReturnsAtOnce(p) == p.state \in {"running", "exited"}
\* process.communicate() returns once the subprocess has terminated.
CommunicateReturns(p) == p.state = "exited"

NoOutput == [by |-> None, parity_eigenvals |-> <<>>]

CallerIdle ==
  /\ env = [exe |-> TRUE, present |-> Required, kpoints_ok |-> TRUE,
            set_spn |-> 0, sga |-> 1, fs0 |-> [x \in {"outir.txt", "err.txt"} |-> NoFile]]
  /\ cwd = "start"
  /\ fs = env.fs0
  /\ proc = NoProc
  /\ started = 0
  /\ cmd_list = <<>>
  /\ output = NoOutput
  /\ events = <<>>
ParseIdle ==
  /\ header = ShortFile
  /\ lines = <<>>
  /\ kpoints = KPOINTS
  /\ args = DefaultArgs
  /\ self = SelfStart
  /\ trim_dict = <<>>
  /\ scan = ScanStart

InitCaller ==
  /\ call = "IRVSPCaller"
  /\ pc = "requires"
  /\ exc = NoExc
  /\ ParseIdle
  /\ OutcarIdle
  /\ env \in [ exe : BOOLEAN, present : SUBSET Required, kpoints_ok : BOOLEAN,
               set_spn : SetSpnValues, sga : AnalyzedGroups,
               fs0 : {[x \in {"outir.txt", "err.txt"} |-> f] : f \in {NoFile, OldFile}} ]
  /\ cwd = "start"
  /\ fs = env.fs0
  /\ proc = NoProc
  /\ started = 0
  /\ cmd_list = <<>>
  /\ output = NoOutput
  /\ events = <<>>

Calling == call = "IRVSPCaller"
\* A step of the constructor, with the state of the subprocess at that time.
Event(step) == [step |-> step, proc |-> proc.state]
Raise(e) == pc' = "raised" /\ exc' = e
Goto(l) == pc' = l /\ UNCHANGED exc

\* @requires(IRVSPEXE, ...): without irvsp on the path the call raises at once.
Requires ==
  /\ Calling /\ pc = "requires"
  /\ IF env.exe THEN Goto("check") ELSE Raise("RuntimeError")
  /\ UNCHANGED <<call, parseVars, callerVars, outcarVars>>

\* The check for POSCAR, OUTCAR and WAVECAR.
CheckFiles ==
  /\ Calling /\ pc = "check"
  /\ events' = Append(events, Event("check"))
  /\ IF FilesMissing(env.present) THEN Raise("FileNotFoundError") ELSE Goto("chdir")
  /\ UNCHANGED <<call, parseVars, outcarVars, env, cwd, fs, proc, started, cmd_list, output>>

\* os.chdir(folder_name)
Chdir ==
  /\ Calling /\ pc = "chdir"
  /\ cwd' = "folder_name"
  /\ events' = Append(events, Event("chdir"))
  /\ Goto("sgn")
  /\ UNCHANGED <<call, parseVars, outcarVars, env, fs, proc, started, cmd_list, output>>

\* Structure.from_file("POSCAR"), the space group number, the command line.
BuildCommand ==
  /\ Calling /\ pc = "sgn"
  /\ IF "POSCAR" \notin env.present
     THEN Raise("FileNotFoundError") /\ UNCHANGED cmd_list
     ELSE /\ cmd_list' = CmdList(SpaceGroupNumber(env.set_spn, env.sga))
          /\ Goto("open")
  /\ UNCHANGED <<call, parseVars, outcarVars, env, cwd, fs, proc, started, output, events>>

\* with open("outir.txt", "w") as out, open("err.txt", "w") as err
OpenFiles ==
  /\ Calling /\ pc = "open"
  /\ fs' = [x \in DOMAIN fs |-> EmptyFile]
  /\ events' = Append(events, Event("open"))
  /\ Goto("popen")
  /\ UNCHANGED <<call, parseVars, outcarVars, env, cwd, proc, started, cmd_list, output>>

\* subprocess.Popen(cmd_list, stdout=out, stderr=err)
Popen ==
  /\ Calling /\ pc = "popen"
  /\ \E r \in CallerReports :
       proc' = [state |-> "running", stdout |-> "outir.txt", stderr |-> "err.txt",
                report |-> r]
  /\ started' = started + 1
  /\ events' = Append(events, Event("start"))
  /\ Goto("communicate")
  /\ UNCHANGED <<call, parseVars, outcarVars, env, cwd, fs, cmd_list, output>>

\* irvsp prints the head of its report, then the report line by line.
IrvspWrite ==
  /\ Calling /\ proc.state = "running"
  /\ LET f == fs[proc.stdout] IN
     /\ f.head.short \/ Len(f.body) < Len(proc.report)
     /\ fs' = [fs EXCEPT ![proc.stdout] =
                 IF f.head.short THEN [f EXCEPT !.head = PlainHeader]
                 ELSE [f EXCEPT !.body = Append(@, proc.report[Len(f.body) + 1])]]
  /\ UNCHANGED <<call, pc, exc, parseVars, outcarVars, env, cwd, proc, started, cmd_list,
                 output, events>>

\* irvsp terminates, after its report or before the end of it.
IrvspExit ==
  /\ Calling /\ proc.state = "running"
  /\ proc' = [proc EXCEPT !.state = "exited"]
  /\ UNCHANGED <<call, pc, exc, parseVars, outcarVars, env, cwd, fs, started, cmd_list,
                 output, events>>

\* process.communicate(), then self.output = None
Communicate ==
  /\ Calling /\ pc = "communicate"
  /\ CommunicateReturns(proc)
  /\ output' = NoOutput
  /\ events' = Append(events, Event("wait"))
  /\ Goto("parse")
  /\ UNCHANGED <<call, parseVars, outcarVars, env, cwd, fs, proc, started, cmd_list>>

\* What the first parse gives: Kpoints.from_file("KPOINTS") is evaluated
\* first and raises when KPOINTS cannot be read.
FirstParse(e, file) ==
  IF ~e.kpoints_ok
  THEN [exc |-> "KpointsError", by |-> "IRVSPOutput", parity_eigenvals |-> <<>>]
  ELSE Construct("IRVSPOutput", file, KPOINTS)

\* try: self.output = IRVSPOutput("outir.txt", Kpoints.from_file("KPOINTS"))
ProcessOutput ==
  /\ Calling /\ pc = "parse"
  /\ events' = Append(events, Event("read"))
  /\ IF ~fs["outir.txt"].exists
     THEN Raise("FileNotFoundError") /\ UNCHANGED output
     ELSE LET r == FirstParse(env, fs["outir.txt"]) IN
          IF r.exc = NoExc
          THEN /\ output' = [by |-> r.by, parity_eigenvals |-> r.parity_eigenvals]
               /\ Goto("done")
          ELSE /\ UNCHANGED output
               /\ Goto("except")
  /\ UNCHANGED <<call, parseVars, outcarVars, env, cwd, fs, proc, started, cmd_list>>

\* The handler without its fallback: the first exception goes to the caller.
FallbackReraises ==
  /\ Calling /\ pc = "except"
  /\ Raise(FirstParse(env, fs["outir.txt"]).exc)
  /\ UNCHANGED <<call, parseVars, outcarVars, callerVars>>

\* except Exception: self.output = IRVSPOutputAll("outir.txt")
Fallback ==
  /\ Calling /\ pc = "except"
  /\ events' = Append(events, Event("read"))
  /\ LET r == Construct("IRVSPOutputAll", fs["outir.txt"], KPOINTS) IN
     IF r.exc = NoExc
     THEN /\ output' = [by |-> r.by, parity_eigenvals |-> r.parity_eigenvals]
          /\ Goto("done")
     ELSE /\ UNCHANGED output
          /\ Raise(r.exc)
  /\ UNCHANGED <<call, parseVars, outcarVars, env, cwd, fs, proc, started, cmd_list>>


InitOutcar ==
  /\ call = "modify_outcar"
  /\ pc = "isfile"
  /\ exc = NoExc
  /\ ParseIdle
  /\ CallerIdle
  /\ outcar = <<>>
  /\ loop = LoopStart
  /\ temp = <<>>
  /\ \E e \in BOOLEAN :
       disk = [x \in {"OUTCAR", "name", "temp.txt"} |->
                 IF x = "OUTCAR" /\ e THEN [exists |-> TRUE, content |-> <<>>]
                 ELSE Absent]

Modifying == call = "modify_outcar"

\* if not path.isfile("OUTCAR"): raise FileNotFoundError()
CheckOutcar ==
  /\ Modifying /\ pc = "isfile"
  /\ IF disk["OUTCAR"].exists
     THEN /\ Goto("loop")
          /\ disk' = [disk EXCEPT !["temp.txt"] = [exists |-> TRUE, content |-> <<>>]]
     ELSE Raise("FileNotFoundError") /\ UNCHANGED disk
  /\ UNCHANGED <<call, parseVars, callerVars, outcar, loop, temp>>

\* One line of OUTCAR, whichever the file holds next.
RewriteNext ==
  /\ Modifying /\ pc = "loop" /\ Len(outcar) < MaxOutcar
  /\ \E line \in OutcarLines(Len(outcar) + 1) :
       LET r == RewriteLine(loop, temp, Len(outcar), line) IN
       /\ outcar' = Append(outcar, line)
       /\ loop' = r.loop
       /\ temp' = r.temp
       /\ disk' = [disk EXCEPT !["OUTCAR"].content = Append(outcar, line),
                               !["temp.txt"].content = r.temp]
  /\ UNCHANGED <<call, pc, exc, parseVars, callerVars>>

\* OUTCAR has no more lines: os.rename("OUTCAR", name)
RenameOutcar ==
  /\ Modifying /\ pc = "loop"
  /\ disk' = [disk EXCEPT !["name"] = disk["OUTCAR"], !["OUTCAR"] = Absent]
  /\ Goto("rename")
  /\ UNCHANGED <<call, parseVars, callerVars, outcar, loop, temp>>

\* os.rename("temp.txt", "OUTCAR")
RenameTemp ==
  /\ Modifying /\ pc = "rename"
  /\ disk' = [disk EXCEPT !["OUTCAR"] = disk["temp.txt"], !["temp.txt"] = Absent]
  /\ Goto("done")
  /\ UNCHANGED <<call, parseVars, callerVars, outcar, loop, temp>>

InitParse ==
  /\ call \in {"IRVSPOutput", "IRVSPOutputAll"}
  /\ pc = "header"
  /\ header \in Headers
  /\ lines = <<>>
  /\ IF call = "IRVSPOutput" THEN kpoints \in KpointsFiles ELSE kpoints = KPOINTS
  /\ (args = DefaultArgs \/ args = PassedArgs)
  /\ self = InitAttrs(args)
  /\ trim_dict = <<>>
  /\ scan = ScanStart
  /\ exc = NoExc
  /\ CallerIdle
  /\ OutcarIdle

Parsing == call \in {"IRVSPOutput", "IRVSPOutputAll"}

ParseHeader ==
  /\ Parsing /\ pc = "header"
  /\ IF header.short
     THEN pc' = "raised" /\ exc' = "IndexError" /\ UNCHANGED self
     ELSE /\ self' = ParsedAttrs(self, header)
          /\ pc' = IF call = "IRVSPOutput" THEN "trim" ELSE "scan"
          /\ UNCHANGED exc
  /\ UNCHANGED <<call, header, lines, kpoints, args, trim_dict, scan>>
  /\ UNCHANGED <<callerVars, outcarVars>>

BuildTrimDict ==
  /\ call = "IRVSPOutput" /\ pc = "trim"
  /\ LET t == TrimDict(kpoints) IN
     IF t.exc # NoExc
     THEN pc' = "raised" /\ exc' = t.exc /\ UNCHANGED trim_dict
     ELSE pc' = "scan" /\ trim_dict' = t.d /\ UNCHANGED exc
  /\ UNCHANGED <<call, header, lines, kpoints, args, self, scan>>
  /\ UNCHANGED <<callerVars, outcarVars>>

\* One iteration of the scanning loop, on whichever line the report holds next.
ScanNext ==
  /\ Parsing /\ pc = "scan" /\ Len(lines) < MaxLines
  /\ \E line \in NextLines(lines) :
       /\ lines' = Append(lines, line)
       /\ scan' = IF call = "IRVSPOutput"
                  THEN ScanLine(trim_dict, self.spin_polarized, scan, line)
                  ELSE ScanLineAll(self.spin_polarized, scan, line)
  /\ IF scan'.exc # NoExc
     THEN pc' = "raised" /\ exc' = scan'.exc
     ELSE UNCHANGED <<pc, exc>>
  /\ UNCHANGED <<call, header, kpoints, args, self, trim_dict>>
  /\ UNCHANGED <<callerVars, outcarVars>>

\* The report has no more lines: self.parity_eigenvals = parity_eigenvals.
FinishParse ==
  /\ Parsing /\ pc = "scan"
  /\ self' = [self EXCEPT !.parity_eigenvals = scan.parity_eigenvals]
  /\ pc' = "done"
  /\ UNCHANGED <<call, header, lines, kpoints, args, trim_dict, scan, exc>>
  /\ UNCHANGED <<callerVars, outcarVars>>

Init == InitParse \/ InitCaller \/ InitOutcar

Next ==
  \/ ParseHeader
  \/ BuildTrimDict
  \/ ScanNext
  \/ FinishParse
  \/ Requires
  \/ CheckFiles
  \/ Chdir
  \/ BuildCommand
  \/ OpenFiles
  \/ Popen
  \/ IrvspWrite
  \/ IrvspExit
  \/ Communicate
  \/ ProcessOutput
  \/ Fallback
  \/ CheckOutcar
  \/ RewriteNext
  \/ RenameOutcar
  \/ RenameTemp

Spec == Init /\ [][Next]_vars

\* ------------------------------------------------- reading the report text
\* What the text itself says, independently of the scanning loop.
\* The blocks a "*****" line has closed: [from, to], to being that line.
ClosedBlocks(text) ==
  { [from |-> IF \E i \in 1..(j - 1) : text[i].kind = "stars"
              THEN 1 + CHOOSE i \in 1..(j - 1) :
                         /\ text[i].kind = "stars"
                         /\ \A m \in (i + 1)..(j - 1) : text[m].kind # "stars"
              ELSE 1,
     to |-> j] : j \in {i \in 1..Len(text) : text[i].kind = "stars"} }
\* The "k = " line of a block.
BlockKLine(text, b) ==
  text[CHOOSE i \in b.from..b.to : text[i].kind = "k"]
NoKey == "<no key>"
\* The key the block's k-vector stands for: its KPOINTS label, or str(kvec).
NoLabel == {None, "None", "", " "}
LabelOf(v) ==
  IF \E i \in 1..Len(kpoints) :
        /\ RoundVec(kpoints[i].kpt) = RoundVec(v)
        /\ kpoints[i].label \notin NoLabel
  THEN kpoints[CHOOSE i \in 1..Len(kpoints) :
                 /\ RoundVec(kpoints[i].kpt) = RoundVec(v)
                 /\ kpoints[i].label \notin NoLabel].label
  ELSE NoKey
BlockKey(c, text, b) ==
  LET kl == BlockKLine(text, b) IN
  IF kl.arg = Unparsable THEN NoKey
  ELSE IF c = "IRVSPOutput" THEN LabelOf(kl.arg) ELSE Str(RoundVec(kl.arg))
\* A trace line the loop can record: digits, an integer band index, more than
\* 30 characters before a single "=", and fields that parse.
Recordable(line) ==
  /\ line.kind = "trace"
  /\ HasZero(line) /\ HeadIsInt(line) /\ LongTrace(line) /\ OneEquals(line)
  /\ FieldsParse(line)
\* The numbers of the recordable trace lines of a block, in text order.
BlockTraces(text, b) ==
  LET sel == SelectSeq(SubSeq(text, b.from, b.to), Recordable)
  IN [i \in 1..Len(sel) |-> sel[i].n]
\* The per-k-point records held in a parity_eigenvals dict, at top level or
\* under "up"/"down".
Records(pe) ==
  UNION { IF "band_index" \in DOMAIN pe[i].v THEN {pe[i].v}
          ELSE {pe[i].v[x] : x \in DOMAIN pe[i].v} : i \in 1..Len(pe) }
RecordsUnder(pe, k) ==
  IF ~DictHas(pe, k) THEN {}
  ELSE LET v == DictGet(pe, k) IN
       IF "band_index" \in DOMAIN v THEN {v} ELSE {v[x] : x \in DOMAIN v}
\* The record holds exactly the trace lines numbered ns, field by field.
HoldsLines(text, r, ns) ==
  /\ r.band_index = [i \in 1..Len(ns) |-> BandIndex(text[ns[i]])]
  /\ r.band_degeneracy = [i \in 1..Len(ns) |-> BandDegeneracy(text[ns[i]])]
  /\ r.band_eigenval = [i \in 1..Len(ns) |-> BandEigenval(text[ns[i]])]
  /\ r.irreducible_reps = [i \in 1..Len(ns) |-> IrrepLabel(text[ns[i]])]
Done(c) == call = c /\ pc = "done"
AllKParse(text) ==
  \A i \in 1..Len(text) : text[i].kind = "k" => text[i].arg # Unparsable
\* The blocks of key k, in text order: the j-th is the one with j - 1 before it.
BlocksOfKey(c, text, k) == {b \in ClosedBlocks(text) : BlockKey(c, text, b) = k}
NthBlock(c, text, k, j) ==
  CHOOSE b \in BlocksOfKey(c, text, k) :
    Cardinality({a \in BlocksOfKey(c, text, k) : a.to < b.to}) = j - 1
\* The report says it is spin-polarized (line 11 holds no "No").
ReportSpinPolarized == ~header.short /\ ~header.sp_no
\* The line is complete as a reader of the report sees it: an integer band
\* index first, exactly one "=", more than 30 characters before it.
CompleteTrace(line) ==
  line.kind = "trace" /\ HeadIsInt(line) /\ OneEquals(line) /\ LongTrace(line)
\* The last "bnd ndg" header, when no "*****" line has closed its block; 0 if none.
OpenHeader(text) ==
  IF \E h \in 1..Len(text) :
        text[h].kind = "hdr" /\ \A m \in (h + 1)..Len(text) : text[m].kind # "stars"
  THEN CHOOSE h \in 1..Len(text) :
        text[h].kind = "hdr" /\ \A m \in (h + 1)..Len(text) :
                                   text[m].kind \notin {"stars", "hdr"}
  ELSE 0
\* The "k = " line of the block the text is in.
CurrentKLine(text) ==
  text[CHOOSE i \in 1..Len(text) :
         text[i].kind = "k" /\ \A m \in (i + 1)..Len(text) : text[m].kind # "k"]
KeyOfLine(c, kl) ==
  IF kl.arg = Unparsable THEN NoKey
  ELSE IF c = "IRVSPOutput" THEN LabelOf(kl.arg) ELSE Str(RoundVec(kl.arg))

\* ------------------------------------------------------------------ claims
\* C1: in IRVSPOutput, the band_index / band_degeneracy / band_eigenval /
\* irreducible_reps stored under a label L are the trace lines of a block
\* whose "k = " vector, rounded to 3 decimals, is the KPOINTS point of L;
\* the traces of an unlabelled block never reach or replace a record.
\* (Stated for reports whose "k = " lines all parse.)
C1_RecordsFollowLabelledBlock ==
  (Done("IRVSPOutput") /\ AllKParse(lines)) =>
    \A i \in 1..Len(self.parity_eigenvals) :
      \A r \in RecordsUnder(self.parity_eigenvals, self.parity_eigenvals[i].k) :
        \E b \in ClosedBlocks(lines) :
          /\ BlockKey(call, lines, b) = self.parity_eigenvals[i].k
          /\ HoldsLines(lines, r, BlockTraces(lines, b))

\* C2: in a spin-polarized report the record of key K has "up" = the first
\* block of K in the text (never replaced later) and "down" = the second block
\* of that same k-point; otherwise the record sits directly under K.
C2_SpinChannelsFollowBlocks ==
  (Parsing /\ pc = "done") =>
    \A i \in 1..Len(self.parity_eigenvals) :
      LET k == self.parity_eigenvals[i].k
          v == self.parity_eigenvals[i].v
          n == Cardinality(BlocksOfKey(call, lines, k))
      IN IF ReportSpinPolarized
         THEN /\ "up" \in DOMAIN v /\ DOMAIN v \subseteq {"up", "down"}
              /\ n >= 1
              /\ HoldsLines(lines, v.up,
                            BlockTraces(lines, NthBlock(call, lines, k, 1)))
              /\ "down" \in DOMAIN v =>
                   /\ n >= 2
                   /\ HoldsLines(lines, v.down,
                                 BlockTraces(lines, NthBlock(call, lines, k, 2)))
         ELSE "band_index" \in DOMAIN v

\* C5: the four arrays of every record, and of the block being read, are
\* parallel: equal lengths, the i-th entries all taken from one trace line,
\* in the order of the text; also once a field has failed to parse.
ParallelArrays(text, bi, bd, be, ir) ==
  /\ Len(bi) = Len(bd) /\ Len(bi) = Len(be) /\ Len(bi) = Len(ir)
  /\ \A i \in 1..Len(bi) :
       /\ bi[i] \in 1..Len(text)
       /\ text[bi[i]].kind = "trace"
       /\ bi[i] = BandIndex(text[bi[i]])
       /\ bd[i] = BandDegeneracy(text[bi[i]])
       /\ be[i] = BandEigenval(text[bi[i]])
       /\ ir[i] = IrrepLabel(text[bi[i]])
       /\ i > 1 => bi[i - 1] < bi[i]
C5_ParallelArrays ==
  Parsing =>
    /\ ParallelArrays(lines, scan.bnds, scan.ndgs, scan.bnd_evs, scan.reps)
    /\ \A r \in Records(scan.parity_eigenvals) :
         ParallelArrays(lines, r.band_index, r.band_degeneracy,
                        r.band_eigenval, r.irreducible_reps)
    /\ pc = "done" => self.parity_eigenvals = scan.parity_eigenvals
\* A stored record of two entries, with a skipped line between the two.
C5_Witness ==
  /\ Parsing /\ pc = "done"
  /\ \E r \in Records(self.parity_eigenvals) :
       /\ Len(r.band_index) = 2
       /\ \E i \in (r.band_index[1] + 1)..(r.band_index[2] - 1) :
            lines[i].kind = "trace" /\ ~Recordable(lines[i])

\* C6: IRVSPOutputAll keeps every k-point under str(k-vector): each closed
\* block with a parsable "k = " line has its key, every record under a key
\* holds the trace lines of a block of that k-vector, and the traces that
\* follow an unparsable "k = " line are not stored under the previous key.
C6_AllKeepsEveryKvec ==
  Done("IRVSPOutputAll") =>
    /\ \A b \in ClosedBlocks(lines) :
         BlockKey(call, lines, b) # NoKey =>
           DictHas(self.parity_eigenvals, BlockKey(call, lines, b))
    /\ \A i \in 1..Len(self.parity_eigenvals) :
         \A r \in RecordsUnder(self.parity_eigenvals, self.parity_eigenvals[i].k) :
           \E b \in ClosedBlocks(lines) :
             /\ BlockKey(call, lines, b) = self.parity_eigenvals[i].k
             /\ HoldsLines(lines, r, BlockTraces(lines, b))

\* C9: between the "bnd ndg" header of a wanted k-point and the closing
\* "*****" line, every complete trace line is recorded exactly once and every
\* other line is skipped, leaving the arrays alone and the block open.
C9_CompleteLinesRecorded ==
  (Parsing /\ pc \in {"scan", "done", "raised"} /\ OpenHeader(lines) > 0
     /\ KeyOfLine(call, CurrentKLine(lines)) # NoKey) =>
    LET sel == SelectSeq(SubSeq(lines, OpenHeader(lines), Len(lines)), CompleteTrace)
        ns == [i \in 1..Len(sel) |-> sel[i].n]
    IN /\ exc = NoExc
       /\ scan.trace_start
       /\ HoldsLines(lines, [band_index |-> scan.bnds, band_degeneracy |-> scan.ndgs,
                             band_eigenval |-> scan.bnd_evs,
                             irreducible_reps |-> scan.reps], ns)

\* C3: the value passed after "-v" depends on the space-group class: for a
\* non-symmorphic space-group number it differs from the value passed for a
\* symmorphic one.
C3_VersionFollowsSymmorphic ==
  (Calling /\ Len(cmd_list) > 0 /\ cmd_list[3] \notin ssgs) =>
    \A sg \in ssgs : cmd_list[5] # CmdList(sg)[5]

\* C4: irvsp runs as a single blocking call. It is never started twice; a
\* construction that reaches the parse has started it exactly once, with
\* stdout on outir.txt and stderr on err.txt; the parser reads outir.txt only
\* after the subprocess has terminated; and the steps come in the order file
\* check, chdir, start, wait, parse.
Reads == {i \in 1..Len(events) : events[i].step = "read"}
C4_SingleBlockingCall ==
  Calling =>
    /\ started <= 1
    /\ \A i \in Reads : events[i].proc = "exited"
    /\ (pc \in {"parse", "except", "done"} \/ Reads # {}) =>
         /\ started = 1
         /\ proc.state = "exited"
         /\ proc.stdout = "outir.txt" /\ proc.stderr = "err.txt"
    /\ \A i \in 1..Len(events) :
         IF i <= 5
         THEN events[i].step = <<"check", "chdir", "open", "start", "wait">>[i]
         ELSE events[i].step = "read"
\* A construction that returned after irvsp printed a whole report.
C4_Witness ==
  /\ Calling /\ pc = "done" /\ started = 1
  /\ Len(fs["outir.txt"].body) = Len(proc.report)
  /\ Reads # {}

\* C8 as stated: with one of POSCAR, OUTCAR, WAVECAR missing, construction
\* ends in FileNotFoundError and nothing else has happened.
NothingHappened ==
  /\ cwd = "start" /\ started = 0 /\ proc = NoProc /\ fs = env.fs0
  /\ cmd_list = <<>> /\ output = NoOutput
C8_MissingFileRaisesFileNotFound ==
  (Calling /\ env.present # Required) =>
    /\ NothingHappened
    /\ pc \in {"requires", "check", "raised"}
    /\ pc = "raised" => exc = "FileNotFoundError"
\* C8 as amended: the same when irvsp is on the path; when it is not, the
\* @requires guard raises RuntimeError first, and nothing else has happened
\* either.
C8_MissingFileRaisesBeforeAnyEffect ==
  (Calling /\ env.present # Required) =>
    /\ NothingHappened
    /\ pc \in {"requires", "check", "raised"}
    /\ pc = "raised" =>
         exc = IF env.exe THEN "FileNotFoundError" ELSE "RuntimeError"
\* POSCAR alone is missing, an old outir.txt exists, and the call has raised.
C8_Witness ==
  /\ Calling /\ pc = "raised" /\ exc = "FileNotFoundError"
  /\ env.exe /\ env.present = Required \ {"POSCAR"}
  /\ fs["outir.txt"] = OldFile

\* C10: when construction returns, self.output is not None: it is the
\* IRVSPOutput result if that parse raised nothing, otherwise the
\* IRVSPOutputAll result for the same outir.txt. An exception of the first
\* parse (a failure to read KPOINTS included) never reaches the caller; an
\* exception of the fallback parse does.
FirstFailed == ~env.kpoints_ok \/ Construct("IRVSPOutput", fs["outir.txt"], KPOINTS).exc # NoExc
SecondResult == Construct("IRVSPOutputAll", fs["outir.txt"], KPOINTS)
C10_OutputWithFallback ==
  Calling =>
    /\ pc = "done" =>
         /\ output.by # None
         /\ output.by = "IRVSPOutput" <=> ~FirstFailed
         /\ output.by = "IRVSPOutputAll" <=> FirstFailed
         /\ output.parity_eigenvals =
              Construct(output.by, fs["outir.txt"], KPOINTS).parity_eigenvals
         /\ FirstFailed => SecondResult.exc = NoExc
    /\ (pc = "raised" /\ Reads # {}) =>
         /\ Cardinality(Reads) = 2
         /\ FirstFailed
         /\ SecondResult.exc # NoExc /\ exc = SecondResult.exc
         /\ output = NoOutput
\* The label-keyed parse raised on a report that opens with an unlabelled
\* k-point, and the caller got the IRVSPOutputAll result.
C10_Witness ==
  /\ Calling /\ pc = "done" /\ env.kpoints_ok
  /\ output.by = "IRVSPOutputAll"
  /\ Len(output.parity_eigenvals) = 1

\* C7: in the rewritten OUTCAR the N lines after the "irot" header are gone,
\* replaced by exactly one identity line, one inversion line and one blank
\* line; the pair is written once and nowhere else, wherever the INISYM and
\* "irot" lines stand. (Stated for an OUTCAR with one INISYM line, one "irot"
\* line after it, and at least N lines after that.)
KindAt(text, kind) == {i \in 1..Len(text) : text[i].kind = kind}
WellFormedOutcar(text) ==
  /\ Cardinality(KindAt(text, "inisym")) = 1
  /\ Cardinality(KindAt(text, "irot")) = 1
  /\ LET i == CHOOSE x \in KindAt(text, "inisym") : TRUE
         j == CHOOSE x \in KindAt(text, "irot") : TRUE
     IN i < j /\ j + text[i].arg <= Len(text)
ExpectedOutcar(text) ==
  LET i == CHOOSE x \in KindAt(text, "inisym") : TRUE
      j == CHOOSE x \in KindAt(text, "irot") : TRUE
  IN SubSeq(text, 1, j) \o <<identity_op, inv_op, newline>> \o
     SubSeq(text, j + text[i].arg + 1, Len(text))
C7_OnlyIdentityAndInversionKept ==
  (Modifying /\ pc = "done" /\ WellFormedOutcar(outcar)) =>
    disk["OUTCAR"].content = ExpectedOutcar(outcar)

\* C11: once IRVSPOutput or IRVSPOutputAll is constructed, symmorphic,
\* inversion, soc and spin_polarized are what lines 8, 10 and 11 of the report
\* say (False iff the line holds 'Non-symmorphic', 'without', 'No', 'No'),
\* whatever was passed to the constructor; parity_eigenvals is the dict the
\* scan of the report built, each of its keys the key of a "k = " line of the
\* report, and its records have the 'up'/'down' shape iff the report itself
\* says the run was spin-polarized.
KeysOfReport ==
  {KeyOfLine(call, lines[j]) : j \in KindAt(lines, "k")}
C11_AttributesAreParsed ==
  (Parsing /\ pc = "done") =>
    /\ self.symmorphic = ~header.nonsymm
    /\ self.inversion = ~header.without
    /\ self.soc = ~header.soc_no
    /\ self.spin_polarized = ~header.sp_no
    /\ self.parity_eigenvals = scan.parity_eigenvals
    /\ \A i \in 1..Len(self.parity_eigenvals) :
         self.parity_eigenvals[i].k \in KeysOfReport
    /\ \A i \in 1..Len(self.parity_eigenvals) :
         ("up" \in DOMAIN self.parity_eigenvals[i].v) <=> ~header.sp_no
\* A spin-polarized report with a stored block, parsed by a constructor that
\* was passed spin_polarized=False, soc=True and a dict of its own.
C11_Witness ==
  /\ Parsing /\ pc = "done"
  /\ args.given
  /\ ~args.attrs.spin_polarized /\ ~header.sp_no
  /\ args.attrs.soc /\ header.soc_no
  /\ Len(self.parity_eigenvals) >= 1
  /\ "up" \in DOMAIN self.parity_eigenvals[1].v

\* C12: modify_outcar changes nothing but the operation block. After it
\* returns, `name` holds the original OUTCAR; every original line that is not
\* one of the N lines after an "irot" header is in the new OUTCAR exactly
\* once, unaltered and in the original order; without an "irot" line the new
\* OUTCAR is the original, line for line. Without an OUTCAR the call raises
\* FileNotFoundError and no file is created or renamed.
\* The count an "irot" header at position i goes with: that of the last
\* INISYM line before it.
OpsStatedBefore(text, i) ==
  LET before == {x \in KindAt(text, "inisym") : x < i}
  IN IF before = {} THEN 0
     ELSE text[CHOOSE x \in before : \A y \in before : y <= x].arg
OperationLines(text) ==
  UNION {(i + 1)..(i + OpsStatedBefore(text, i)) : i \in KindAt(text, "irot")}
Keep(text, S) == SelectSeq(text, LAMBDA l : l.n \in S)
OtherLines(text) == (1..Len(text)) \ OperationLines(text)
\* The same lines in the same order.
SameLines(a, b) ==
  /\ Len(a) = Len(b)
  /\ \A i \in 1..Len(a) :
       a[i].n = b[i].n /\ a[i].kind = b[i].kind /\ a[i].arg = b[i].arg
C12_NameHoldsOriginal ==
  disk["name"].exists /\ SameLines(disk["name"].content, outcar)
C12_OtherLinesKept ==
  SameLines(Keep(disk["OUTCAR"].content, OtherLines(outcar)),
            Keep(outcar, OtherLines(outcar)))
C12_NoIrotNoChange ==
  KindAt(outcar, "irot") = {} => SameLines(disk["OUTCAR"].content, outcar)
C12_NoOutcarNoEffect ==
  (Modifying /\ exc = "FileNotFoundError") =>
    \A x \in DOMAIN disk : ~disk[x].exists
C12_OnlyOperationBlockChanges ==
  /\ (Modifying /\ pc = "done") =>
       /\ C12_NameHoldsOriginal
       /\ C12_OtherLinesKept
       /\ C12_NoIrotNoChange
  /\ C12_NoOutcarNoEffect

\* C13: IRVSPOutput drops the unlabelled k-points from the label map before
\* it scans: whatever the KPOINTS labels, the entries labelled None, 'None',
\* '' or ' ' are removed and no error is raised; none of the four is ever a
\* key of parity_eigenvals; the map that remains sends the rounded coordinate
\* of every labelled point to its KPOINTS label, and nothing else.
Labelled(kp) == {i \in 1..Len(kp) : kp[i].label \notin NoLabel}
LabelMapOf(td, kp) ==
  /\ \A i \in Labelled(kp) :
       /\ DictHas(td, RoundVec(kp[i].kpt))
       /\ DictGet(td, RoundVec(kp[i].kpt)) = kp[i].label
  /\ Len(td) = Cardinality(Labelled(kp))
C13_UnlabelledDropped ==
  (call = "IRVSPOutput" /\ ~header.short /\ pc \notin {"header", "trim"}) =>
    /\ exc # "KeyError"
    /\ LabelMapOf(trim_dict, kpoints)
    /\ \A i \in 1..Len(scan.parity_eigenvals) :
         scan.parity_eigenvals[i].k \notin NoLabel

====
